---- MODULE Spec2Model ----
(***************************************************************************)
(* Subscription quota enforcement and billing cycle of the Sokogate        *)
(* subscription service (services/subscription_service.py over the tables  *)
(* of models/subscription.py).                                             *)
(*                                                                         *)
(* The store is the committed content of the database.  Every request      *)
(* handler is one action, from its first query to the end of the request;  *)
(* the billing sweep is one action for the selection of the due            *)
(* subscriptions and one action per renewal attempt, so that requests      *)
(* interleave with a sweep at the points where it awaits the payment and   *)
(* notification collaborators.  A notification is sent after the commit    *)
(* of its handler; where its failure changes nothing but the answer of the *)
(* call, the handler's action leaves it out.  Time is counted in days.     *)
(***************************************************************************)
EXTENDS Integers, Sequences, FiniteSets, TLC

(***************************************************************************)
(* Bounds of the model.                                                    *)
(***************************************************************************)
MaxSubs == 2
MaxPreOrders == 3
MaxQuantity == 2
MaxDay == 90
\* Python floats (and the Float columns) are binary floating point numbers
\* with a 53 bit significand; the model keeps the format and its rounding and
\* scales the significand down to MantissaBits bits, the smallest positive
\* number being 2^-FracBits.
MantissaBits == 5
FracBits == 2

\* None / NULL of a nullable column.
Null == -1

(***************************************************************************)
(* Float arithmetic.  A float is held as the integer number of quanta of   *)
(* 2^-FracBits it stands for; every operation rounds the exact result to   *)
(* the nearest representable number, ties to even.                         *)
(***************************************************************************)
RECURSIVE Pow2(_)
Pow2(n) == IF n = 0 THEN 1 ELSE 2 * Pow2(n - 1)

One == Pow2(FracBits)

RoundHalfEven(n, d) ==
    LET q == n \div d
        r == n % d
    IN  IF 2 * r < d THEN q
        ELSE IF 2 * r > d THEN q + 1
        ELSE IF q % 2 = 0 THEN q ELSE q + 1

\* The least step 2^e for which n/d needs at most MantissaBits bits.
RECURSIVE Ulp(_, _, _)
Ulp(n, d, step) ==
    IF n < d * step * Pow2(MantissaBits) THEN step ELSE Ulp(n, d, 2 * step)

\* The float nearest to the rational n/d (in quanta), d > 0.
Fl(n, d) ==
    LET a == IF n < 0 THEN -n ELSE n
        step == Ulp(a, d, 1)
        m == step * RoundHalfEven(a, d * step)
    IN  IF n < 0 THEN -m ELSE m

FromInt(i) == Fl(i * One, 1)
FAdd(a, b) == Fl(a + b, 1)
FSub(a, b) == Fl(a - b, 1)
FMul(a, b) == Fl(a * b, One)
FDiv(a, b) == Fl(a * One, b)
\* A decimal literal n/d of the data, as the float nearest to it.
Dec(n, d) == Fl(n * One, d)

(***************************************************************************)
(* The calendar: day 0 is 1 January, years have 365 days.                  *)
(***************************************************************************)
DaysInYear == 365
MonthFirstDays == <<0, 31, 59, 90, 120, 151, 181, 212, 243, 273, 304, 334>>

\* datetime.utcnow().replace(day=1, hour=0, minute=0, second=0, microsecond=0)
MonthStart(day) ==
    LET y == day \div DaysInYear
        r == day % DaysInYear
        k == CHOOSE i \in 1..12 :
                /\ MonthFirstDays[i] <= r
                /\ \A j \in 1..12 : MonthFirstDays[j] <= r => j <= i
    IN  y * DaysInYear + MonthFirstDays[k]

\* timedelta(days=...) of the billing frequency; NoPeriod for any other value.
MonthlyDays == 30
QuarterlyDays == 90
AnnuallyDays == 365
NoPeriod == 0
Period(freq) ==
    IF freq = "monthly" THEN MonthlyDays
    ELSE IF freq = "quarterly" THEN QuarterlyDays
    ELSE IF freq = "annually" THEN AnnuallyDays
    ELSE NoPeriod


(***************************************************************************)
(* The rows the service works on but never writes: customers, plans and    *)
(* the descriptive columns of the products.                                *)
(***************************************************************************)
Customers == {1, 2}
NoCustomer == 3

\* SubscriptionPlan rows: one plan per billing frequency, an inactive plan and
\* a plan whose billing_frequency is none of the three.
PlanTable ==
    <<[is_active |-> TRUE, billing_frequency |-> "monthly",
       preorder_limit_per_month |-> 2, preorder_value_limit |-> FromInt(0),
       discount_percentage |-> FromInt(0)],
      [is_active |-> TRUE, billing_frequency |-> "quarterly",
       preorder_limit_per_month |-> 0, preorder_value_limit |-> FromInt(9),
       discount_percentage |-> FromInt(25)],
      [is_active |-> TRUE, billing_frequency |-> "annually",
       preorder_limit_per_month |-> 0, preorder_value_limit |-> FromInt(0),
       discount_percentage |-> FromInt(0)],
      [is_active |-> FALSE, billing_frequency |-> "monthly",
       preorder_limit_per_month |-> 0, preorder_value_limit |-> FromInt(0),
       discount_percentage |-> FromInt(0)],
      [is_active |-> TRUE, billing_frequency |-> "weekly",
       preorder_limit_per_month |-> 0, preorder_value_limit |-> FromInt(0),
       discount_percentage |-> FromInt(0)]>>
PlanIds == DOMAIN PlanTable
NoPlan == Len(PlanTable) + 1

\* Product rows at start-up: a product with a capacity, a product with a
\* special pre-order price, a product whose limit and special price are zero,
\* a product with a pre-order window, an inactive product and an ineligible
\* one.
ProductTable ==
    <<[is_active |-> TRUE, is_pre_order_eligible |-> TRUE,
       pre_order_start_date |-> Null, pre_order_end_date |-> Null,
       pre_order_limit |-> 2, current_pre_orders |-> 0,
       base_price |-> FromInt(6), pre_order_price |-> Null],
      [is_active |-> TRUE, is_pre_order_eligible |-> TRUE,
       pre_order_start_date |-> Null, pre_order_end_date |-> Null,
       pre_order_limit |-> Null, current_pre_orders |-> 0,
       base_price |-> FromInt(9), pre_order_price |-> Dec(5, 4)],
      [is_active |-> TRUE, is_pre_order_eligible |-> TRUE,
       pre_order_start_date |-> Null, pre_order_end_date |-> Null,
       pre_order_limit |-> 0, current_pre_orders |-> 0,
       base_price |-> FromInt(6), pre_order_price |-> FromInt(0)],
      [is_active |-> TRUE, is_pre_order_eligible |-> TRUE,
       pre_order_start_date |-> 30, pre_order_end_date |-> 60,
       pre_order_limit |-> Null, current_pre_orders |-> 0,
       base_price |-> FromInt(6), pre_order_price |-> Null],
      [is_active |-> FALSE, is_pre_order_eligible |-> TRUE,
       pre_order_start_date |-> Null, pre_order_end_date |-> Null,
       pre_order_limit |-> Null, current_pre_orders |-> 0,
       base_price |-> FromInt(6), pre_order_price |-> Null],
      [is_active |-> TRUE, is_pre_order_eligible |-> FALSE,
       pre_order_start_date |-> Null, pre_order_end_date |-> Null,
       pre_order_limit |-> Null, current_pre_orders |-> 0,
       base_price |-> FromInt(6), pre_order_price |-> Null]>>
ProductIds == DOMAIN ProductTable
NoProduct == Len(ProductTable) + 1

Quantities == 1..MaxQuantity

\* What the payment and notification collaborators answer: a call returns or
\* raises.
PaymentOutcomes == {"ok", "failed"}
NotificationOutcomes == {"ok", "failed"}


(***************************************************************************)
(* The runs explored.  A run is the service from start-up under the        *)
(* requests of one environment: the operations its clients and the         *)
(* processes around the service perform, the customers and plans           *)
(* subscriptions are asked for, the products and quantities pre-orders are *)
(* asked for, how many rows the run creates, its last day, and whether     *)
(* requests arrive while a billing sweep is in progress.                   *)
(***************************************************************************)
Operations ==
    {"create_subscription", "create_pre_order", "cancel_pre_order",
     "pause_subscription", "resume_subscription", "cancel_subscription",
     "process_billing_cycle", "fulfilment", "payment", "refund_payment"}

\* The pre-orders of one subscription against its monthly count quota, over
\* three calendar months and the renewals that fall in them.
QuotaRun ==
    [ops |-> {"create_subscription", "create_pre_order", "cancel_pre_order",
              "process_billing_cycle"},
     customers |-> {1}, plans |-> {1}, auto_renew |-> {TRUE},
     products |-> {2}, quantities |-> {1},
     max_subs |-> 1, max_pre_orders |-> MaxPreOrders,
     tick |-> MonthlyDays, last_day |-> 2 * MonthlyDays, concurrent |-> FALSE]

\* The prices, discounts and totals of pre-orders of every quantity, against
\* a value quota and without one, and the capacity of the products.
PricingRun ==
    [ops |-> {"create_subscription", "create_pre_order", "cancel_pre_order"},
     customers |-> {1}, plans |-> {2, 3}, auto_renew |-> {TRUE},
     products |-> {1, 2, 3}, quantities |-> Quantities,
     max_subs |-> 1, max_pre_orders |-> 2,
     tick |-> MonthlyDays, last_day |-> 0, concurrent |-> FALSE]

\* Requests about rows that do not exist or do not qualify: an unknown
\* customer, plan and product, an inactive plan and product, an ineligible
\* product, a product outside its pre-order window, a subscription that is
\* paused or cancelled.
RejectionRun ==
    [ops |-> {"create_subscription", "create_pre_order", "cancel_pre_order",
              "pause_subscription", "resume_subscription", "cancel_subscription"},
     customers |-> {1, NoCustomer}, plans |-> {1, 4, 5, NoPlan},
     auto_renew |-> {TRUE},
     products |-> {4, 5, 6, NoProduct}, quantities |-> {1},
     max_subs |-> 1, max_pre_orders |-> 1,
     tick |-> MonthlyDays, last_day |-> MaxDay, concurrent |-> FALSE]

\* The billing sweep over the subscriptions of several customers, monthly
\* and quarterly, renewing and not.
BillingRun ==
    [ops |-> {"create_subscription", "process_billing_cycle"},
     customers |-> Customers, plans |-> {1, 2}, auto_renew |-> BOOLEAN,
     products |-> {}, quantities |-> {},
     max_subs |-> MaxSubs, max_pre_orders |-> 0,
     tick |-> MonthlyDays, last_day |-> MaxDay, concurrent |-> FALSE]

\* Pre-orders through fulfilment and payment, cancelled one by one and by
\* the cascade of cancel_subscription.
LifecycleRun ==
    [ops |-> {"create_subscription", "create_pre_order", "cancel_pre_order",
              "cancel_subscription", "fulfilment", "payment"},
     customers |-> {1}, plans |-> {3}, auto_renew |-> {TRUE},
     products |-> {2}, quantities |-> {1},
     max_subs |-> 1, max_pre_orders |-> 2,
     tick |-> MonthlyDays, last_day |-> MonthlyDays, concurrent |-> FALSE]

\* A year in one step: the renewal of the quarterly and the annual plan.
AnnualRun ==
    [ops |-> {"create_subscription", "create_pre_order", "cancel_pre_order",
              "process_billing_cycle"},
     customers |-> {1}, plans |-> {2, 3}, auto_renew |-> {TRUE},
     products |-> {1}, quantities |-> {1},
     max_subs |-> 1, max_pre_orders |-> 2,
     tick |-> AnnuallyDays, last_day |-> AnnuallyDays, concurrent |-> FALSE]

\* Requests on a subscription while the sweep that selected it awaits its
\* payment.
ConcurrentRun ==
    [ops |-> {"create_subscription", "pause_subscription", "resume_subscription",
              "cancel_subscription", "process_billing_cycle"},
     customers |-> {1}, plans |-> {1}, auto_renew |-> {TRUE},
     products |-> {}, quantities |-> {},
     max_subs |-> 1, max_pre_orders |-> 0,
     tick |-> MonthlyDays, last_day |-> MonthlyDays, concurrent |-> TRUE]

\* A cancel_pre_order of a charged pre-order that waits for its refund while
\* the billing task sweeps: "refund_payment" lets the call be suspended there.
RefundRun ==
    [ops |-> {"create_subscription", "create_pre_order", "cancel_pre_order",
              "payment", "refund_payment", "process_billing_cycle"},
     customers |-> {1}, plans |-> {1}, auto_renew |-> {TRUE},
     products |-> {2}, quantities |-> {1},
     max_subs |-> 1, max_pre_orders |-> 2,
     tick |-> MonthlyDays, last_day |-> MonthlyDays, concurrent |-> FALSE]

\* Pre-orders against the value quota of the quarterly plan on the day of its
\* renewal, the first of a calendar month, for a product without a capacity
\* in force.
ValueQuotaRun ==
    [ops |-> {"create_subscription", "create_pre_order", "process_billing_cycle"},
     customers |-> {1}, plans |-> {2}, auto_renew |-> {TRUE},
     products |-> {3}, quantities |-> {1},
     max_subs |-> 1, max_pre_orders |-> 2,
     tick |-> QuarterlyDays, last_day |-> QuarterlyDays, concurrent |-> FALSE]

\* One customer who subscribes again while an earlier subscription is paused
\* or cancelled.
ResubscribeRun ==
    [ops |-> {"create_subscription", "pause_subscription", "resume_subscription",
              "cancel_subscription"},
     customers |-> {1}, plans |-> {1}, auto_renew |-> {TRUE},
     products |-> {}, quantities |-> {},
     max_subs |-> MaxSubs, max_pre_orders |-> 0,
     tick |-> MonthlyDays, last_day |-> 0, concurrent |-> FALSE]

\* Requests on pre-orders that arrive while a cancel_pre_order waits for its
\* refund, on a plan without quotas; no billing sweep.
RaceRun ==
    [ops |-> {"create_subscription", "create_pre_order", "cancel_pre_order",
              "payment", "refund_payment"},
     customers |-> {1}, plans |-> {3}, auto_renew |-> {TRUE},
     products |-> {2}, quantities |-> {1},
     max_subs |-> 1, max_pre_orders |-> 2,
     tick |-> MonthlyDays, last_day |-> 0, concurrent |-> TRUE]

\* Pause and cancel requests that arrive while the billing task sweeps over
\* the subscriptions of two customers: a request runs during the awaits of
\* the turn of the loop before the one it concerns.
SweepRaceRun ==
    [ops |-> {"create_subscription", "pause_subscription", "cancel_subscription",
              "process_billing_cycle"},
     customers |-> {1, 2}, plans |-> {1}, auto_renew |-> {TRUE},
     products |-> {}, quantities |-> {},
     max_subs |-> 2, max_pre_orders |-> 0,
     tick |-> MonthlyDays, last_day |-> MonthlyDays, concurrent |-> TRUE]

Environments ==
    {QuotaRun, PricingRun, RejectionRun, BillingRun, LifecycleRun, AnnualRun,
     ConcurrentRun, RefundRun, ValueQuotaRun, ResubscribeRun, RaceRun,
     SweepRaceRun}

(***************************************************************************)
(* State.                                                                  *)
(***************************************************************************)
VARIABLES
    now,        \* the day datetime.utcnow() falls on
    subs,       \* the subscriptions table, by id
    products,   \* the products table, by id
    pre_orders, \* the pre_orders table, by id
    sweep,      \* the billing task's sweep in progress
    last,       \* the last call: operation, outcome and what it was about
    env,        \* the requests the clients of this run make
    inflight    \* the cancel_pre_order that awaits its refund, if any

vars == <<now, subs, products, pre_orders, sweep, last, env, inflight>>
store == <<subs, products, pre_orders>>

SubIds == DOMAIN subs
PreOrderIds == DOMAIN pre_orders

\* No cancel_pre_order is suspended at its refund.
NoRequest ==
    [pre_order_id |-> 0,
     loaded |-> [subs |-> <<>>, products |-> <<>>, pre_orders |-> <<>>]]

NoSweep ==
    [running |-> FALSE, selected |-> {}, due |-> {}, charged |-> {},
     failed |-> {}, aborted |-> FALSE, waiting |-> 0]

\* The record of a call: op, the outcome (ok or the error raised), the
\* subscription and pre-order it was about (0: none), for an accepted
\* pre-order the order_total the quota check evaluated, and the counters as
\* they were before it.
Call(op, result, sub, po) ==
    [op |-> op, result |-> result, sub |-> sub, po |-> po,
     order_total |-> 0, before |-> <<0, 0, 0>>]

Init ==
    /\ now = 0
    /\ subs = <<>>
    /\ products = ProductTable
    /\ pre_orders = <<>>
    /\ sweep = NoSweep
    /\ last = Call("start", "ok", 0, 0)
    /\ env \in Environments
    /\ inflight = NoRequest

\* A request of the environment arrives.
Requested(op) ==
    /\ op \in env.ops
    /\ env.concurrent \/ (~sweep.running /\ inflight = NoRequest)

\* A call that raises before it commits: the request's session is discarded
\* and the store is what it was.
Rejected(op, error, sub, po) ==
    /\ last' = Call(op, error, sub, po)
    /\ UNCHANGED <<now, subs, products, pre_orders, sweep, env, inflight>>

(***************************************************************************)
(* create_subscription                                                     *)
(***************************************************************************)
HasActiveSubscription(customer_id) ==
    \E s \in SubIds :
        subs[s].customer_id = customer_id /\ subs[s].status = "active"

\* A subscription that does not take its limits from the plan.
NewSubscriptionUncapped(customer_id, plan_id, auto_renew) ==
    LET plan == PlanTable[plan_id]
        next_billing_date == now + Period(plan.billing_frequency)
    IN  [customer_id |-> customer_id,
         subscription_plan_id |-> plan_id,
         status |-> "active",
         start_date |-> now,
         end_date |-> next_billing_date,
         next_billing_date |-> next_billing_date,
         monthly_preorder_limit |-> 0,
         current_month_preorders |-> 0,
         total_preorder_value_limit |-> FromInt(0),
         current_preorder_value |-> FromInt(0),
         auto_renew |-> auto_renew]

NewSubscription(customer_id, plan_id, auto_renew) ==
    LET plan == PlanTable[plan_id]
        next_billing_date == now + Period(plan.billing_frequency)
    IN  [customer_id |-> customer_id,
         subscription_plan_id |-> plan_id,
         status |-> "active",
         start_date |-> now,
         end_date |-> next_billing_date,
         next_billing_date |-> next_billing_date,
         monthly_preorder_limit |-> plan.preorder_limit_per_month,
         current_month_preorders |-> 0,
         total_preorder_value_limit |-> plan.preorder_value_limit,
         current_preorder_value |-> FromInt(0),
         auto_renew |-> auto_renew]

\* The checks of create_subscription with the charge made before the look
\* for an active subscription of the customer.
CreateSubscriptionCheckChargeFirst(customer_id, plan_id, payment) ==
    IF customer_id \notin Customers
    THEN "Customer not found"
    ELSE IF plan_id \notin PlanIds \/ ~PlanTable[plan_id].is_active
    THEN "Subscription plan not found or inactive"
    ELSE IF Period(PlanTable[plan_id].billing_frequency) = NoPeriod
    THEN "Invalid billing frequency"
    ELSE IF payment = "failed"
    THEN "Payment failed"
    ELSE IF HasActiveSubscription(customer_id)
    THEN "Customer already has an active subscription"
    ELSE "ok"

\* The error create_subscription raises, or "ok".
CreateSubscriptionCheck(customer_id, plan_id, payment) ==
    IF customer_id \notin Customers
    THEN "Customer not found"
    ELSE IF plan_id \notin PlanIds \/ ~PlanTable[plan_id].is_active
    THEN "Subscription plan not found or inactive"
    ELSE IF HasActiveSubscription(customer_id)
    THEN "Customer already has an active subscription"
    ELSE IF Period(PlanTable[plan_id].billing_frequency) = NoPeriod
    THEN "Invalid billing frequency"
    ELSE IF payment = "failed"
    THEN "Payment failed"
    ELSE "ok"

\* A create_subscription that commits the subscription before it charges,
\* and leaves it behind, expired, when the charge fails.
CreateSubscriptionInsertFirst(customer_id, plan_id, auto_renew, payment) ==
    LET error == CreateSubscriptionCheck(customer_id, plan_id, payment)
        subscription == NewSubscription(customer_id, plan_id, auto_renew)
    IN  /\ Requested("create_subscription")
        /\ IF error = "Payment failed"
           THEN /\ Len(subs) < env.max_subs
                /\ subs' = Append(subs, [subscription EXCEPT !.status = "expired"])
                /\ last' = Call("create_subscription", error, 0, 0)
                /\ UNCHANGED <<now, products, pre_orders, sweep, env, inflight>>
           ELSE IF error # "ok"
           THEN Rejected("create_subscription", error, 0, 0)
           ELSE /\ Len(subs) < env.max_subs
                /\ subs' = Append(subs, subscription)
                /\ last' = Call("create_subscription", "ok", Len(subs) + 1, 0)
                /\ UNCHANGED <<now, products, pre_orders, sweep, env, inflight>>

create_subscription(customer_id, plan_id, auto_renew, payment) ==
    LET error == CreateSubscriptionCheck(customer_id, plan_id, payment)
    IN  /\ Requested("create_subscription")
        /\ IF error # "ok"
           THEN Rejected("create_subscription", error, 0, 0)
           ELSE /\ Len(subs) < env.max_subs
                /\ subs' = Append(subs, NewSubscription(customer_id, plan_id, auto_renew))
                /\ last' = Call("create_subscription", "ok", Len(subs) + 1, 0)
                /\ UNCHANGED <<now, products, pre_orders, sweep, env, inflight>>

(***************************************************************************)
(* create_pre_order and _validate_subscription_limits                      *)
(***************************************************************************)
\* unit_price = product.pre_order_price or product.base_price: None and 0.0
\* are both false.
UnitPrice(product) ==
    IF product.pre_order_price # Null /\ product.pre_order_price # 0
    THEN product.pre_order_price
    ELSE product.base_price

\* discount_applied = unit_price * (plan.discount_percentage / 100)
UnitDiscount(unit_price, plan) ==
    FMul(unit_price, FDiv(plan.discount_percentage, FromInt(100)))

\* total_amount = (unit_price - discount_applied) * quantity, as create_pre_order
\* computes it.
TotalAmount(subscription, product, quantity) ==
    LET unit_price == UnitPrice(product)
        plan == PlanTable[subscription.subscription_plan_id]
        discount_applied == UnitDiscount(unit_price, plan)
        discounted_price == FSub(unit_price, discount_applied)
    IN  FMul(discounted_price, FromInt(quantity))

\* order_total, as _validate_subscription_limits computes it.
OrderTotal(subscription, product, quantity) ==
    LET unit_price == UnitPrice(product)
        plan == PlanTable[subscription.subscription_plan_id]
        discount_applied == UnitDiscount(unit_price, plan)
        discounted_price == FSub(unit_price, discount_applied)
    IN  FMul(discounted_price, FromInt(quantity))

\* The pre-orders of a subscription created since the start of the current
\* calendar month and not cancelled.
CurrentMonthOrders(O, subscription_id, today) ==
    {i \in DOMAIN O :
        /\ O[i].subscription_id = subscription_id
        /\ O[i].created_at >= MonthStart(today)
        /\ O[i].status # "cancelled"}

\* func.sum(PreOrder.total_amount) over these rows, in the order of their ids,
\* or 0.0 when there is none.
RECURSIVE SumTotals(_, _, _)
SumTotals(O, ids, upto) ==
    IF upto = 0 THEN FromInt(0)
    ELSE IF upto \in ids
         THEN FAdd(SumTotals(O, ids, upto - 1), O[upto].total_amount)
         ELSE SumTotals(O, ids, upto - 1)

CurrentMonthValue(O, subscription_id, today) ==
    SumTotals(O, CurrentMonthOrders(O, subscription_id, today), Len(O))

\* The quota check made on the counters stored with the subscription and not
\* on the pre-orders of the calendar month.
ValidateLimitsFromCounters(subscription_id, product, quantity) ==
    LET subscription == subs[subscription_id]
        current_month_orders == subscription.current_month_preorders
        current_month_value == subscription.current_preorder_value
        order_total == OrderTotal(subscription, product, quantity)
    IN  IF /\ subscription.monthly_preorder_limit > 0
           /\ current_month_orders >= subscription.monthly_preorder_limit
        THEN "Monthly pre-order limit exceeded"
        ELSE IF /\ subscription.total_preorder_value_limit > 0
                /\ FAdd(current_month_value, order_total)
                     > subscription.total_preorder_value_limit
        THEN "Monthly pre-order value limit exceeded"
        ELSE "ok"

\* The quota check without the check of the value limit.
ValidateLimitsCountOnly(subscription_id, product, quantity) ==
    LET subscription == subs[subscription_id]
        current_month_orders ==
            Cardinality(CurrentMonthOrders(pre_orders, subscription_id, now))
    IN  IF /\ subscription.monthly_preorder_limit > 0
           /\ current_month_orders >= subscription.monthly_preorder_limit
        THEN "Monthly pre-order limit exceeded"
        ELSE "ok"

\* The quota check with a limit of zero taken for a limit and not for
\* "unlimited".
ValidateLimitsZeroIsLimit(subscription_id, product, quantity) ==
    LET subscription == subs[subscription_id]
        current_month_orders ==
            Cardinality(CurrentMonthOrders(pre_orders, subscription_id, now))
        current_month_value == CurrentMonthValue(pre_orders, subscription_id, now)
        order_total == OrderTotal(subscription, product, quantity)
    IN  IF current_month_orders >= subscription.monthly_preorder_limit
        THEN "Monthly pre-order limit exceeded"
        ELSE IF FAdd(current_month_value, order_total)
                  > subscription.total_preorder_value_limit
        THEN "Monthly pre-order value limit exceeded"
        ELSE "ok"

\* The quota check with the value compared by >= where the code has >.
ValidateLimitsBelow(subscription_id, product, quantity) ==
    LET subscription == subs[subscription_id]
        current_month_orders ==
            Cardinality(CurrentMonthOrders(pre_orders, subscription_id, now))
        current_month_value == CurrentMonthValue(pre_orders, subscription_id, now)
        order_total == OrderTotal(subscription, product, quantity)
    IN  IF /\ subscription.monthly_preorder_limit > 0
           /\ current_month_orders >= subscription.monthly_preorder_limit
        THEN "Monthly pre-order limit exceeded"
        ELSE IF /\ subscription.total_preorder_value_limit > 0
                /\ FAdd(current_month_value, order_total)
                     >= subscription.total_preorder_value_limit
        THEN "Monthly pre-order value limit exceeded"
        ELSE "ok"

\* The quota check with the count compared by > where the code has >=.
ValidateLimitsAbove(subscription_id, product, quantity) ==
    LET subscription == subs[subscription_id]
        current_month_orders ==
            Cardinality(CurrentMonthOrders(pre_orders, subscription_id, now))
        current_month_value == CurrentMonthValue(pre_orders, subscription_id, now)
        order_total == OrderTotal(subscription, product, quantity)
    IN  IF /\ subscription.monthly_preorder_limit > 0
           /\ current_month_orders > subscription.monthly_preorder_limit
        THEN "Monthly pre-order limit exceeded"
        ELSE IF /\ subscription.total_preorder_value_limit > 0
                /\ FAdd(current_month_value, order_total)
                     > subscription.total_preorder_value_limit
        THEN "Monthly pre-order value limit exceeded"
        ELSE "ok"

\* The error _validate_subscription_limits raises, or "ok".
_validate_subscription_limits(subscription_id, product, quantity) ==
    LET subscription == subs[subscription_id]
        current_month_orders ==
            Cardinality(CurrentMonthOrders(pre_orders, subscription_id, now))
        current_month_value == CurrentMonthValue(pre_orders, subscription_id, now)
        order_total == OrderTotal(subscription, product, quantity)
    IN  IF /\ subscription.monthly_preorder_limit > 0
           /\ current_month_orders >= subscription.monthly_preorder_limit
        THEN "Monthly pre-order limit exceeded"
        ELSE IF /\ subscription.total_preorder_value_limit > 0
                /\ FAdd(current_month_value, order_total)
                     > subscription.total_preorder_value_limit
        THEN "Monthly pre-order value limit exceeded"
        ELSE "ok"

\* The checks of create_pre_order with a subscription of any status taken
\* for an active one.
CreatePreOrderCheckAnyStatus(subscription_id, product_id, quantity) ==
    IF subscription_id \notin SubIds
    THEN "Active subscription not found"
    ELSE IF \/ product_id \notin ProductIds
            \/ ~products[product_id].is_active
            \/ ~products[product_id].is_pre_order_eligible
    THEN "Product not found or not eligible for pre-order"
    ELSE LET product == products[product_id] IN
    IF product.pre_order_start_date # Null /\ now < product.pre_order_start_date
    THEN "Pre-order period has not started yet"
    ELSE IF product.pre_order_end_date # Null /\ now > product.pre_order_end_date
    THEN "Pre-order period has ended"
    ELSE IF /\ product.pre_order_limit # Null /\ product.pre_order_limit # 0
            /\ product.current_pre_orders + quantity > product.pre_order_limit
    THEN "Pre-order quantity exceeds available limit"
    ELSE _validate_subscription_limits(subscription_id, product, quantity)

\* The checks of create_pre_order in the order the code makes them: the error
\* raised, or "ok".
CreatePreOrderCheck(subscription_id, product_id, quantity) ==
    IF subscription_id \notin SubIds \/ subs[subscription_id].status # "active"
    THEN "Active subscription not found"
    ELSE IF \/ product_id \notin ProductIds
            \/ ~products[product_id].is_active
            \/ ~products[product_id].is_pre_order_eligible
    THEN "Product not found or not eligible for pre-order"
    ELSE LET product == products[product_id] IN
    IF product.pre_order_start_date # Null /\ now < product.pre_order_start_date
    THEN "Pre-order period has not started yet"
    ELSE IF product.pre_order_end_date # Null /\ now > product.pre_order_end_date
    THEN "Pre-order period has ended"
    ELSE IF /\ product.pre_order_limit # Null /\ product.pre_order_limit # 0
            /\ product.current_pre_orders + quantity > product.pre_order_limit
    THEN "Pre-order quantity exceeds available limit"
    ELSE _validate_subscription_limits(subscription_id, product, quantity)

NewPreOrder(subscription_id, product_id, quantity) ==
    LET subscription == subs[subscription_id]
        product == products[product_id]
        unit_price == UnitPrice(product)
        plan == PlanTable[subscription.subscription_plan_id]
    IN  [subscription_id |-> subscription_id,
         product_id |-> product_id,
         quantity |-> quantity,
         unit_price |-> unit_price,
         discount_applied |-> FMul(UnitDiscount(unit_price, plan), FromInt(quantity)),
         total_amount |-> TotalAmount(subscription, product, quantity),
         status |-> "pending",
         payment_status |-> "pending",
         created_at |-> now]

\* A create_pre_order that counts the units on the product before it checks
\* the subscription's limits, and raises with the product counted.
CreatePreOrderCountingFirst(subscription_id, product_id, quantity) ==
    LET error == CreatePreOrderCheck(subscription_id, product_id, quantity)
        counted == [products EXCEPT ![product_id].current_pre_orders = @ + quantity]
    IN  /\ Requested("create_pre_order")
        /\ IF error \in {"Monthly pre-order limit exceeded",
                         "Monthly pre-order value limit exceeded"}
           THEN /\ products' = counted
                /\ last' = Call("create_pre_order", error, subscription_id, 0)
                /\ UNCHANGED <<now, subs, pre_orders, sweep, env, inflight>>
           ELSE IF error # "ok"
           THEN Rejected("create_pre_order", error, subscription_id, 0)
           ELSE LET pre_order == NewPreOrder(subscription_id, product_id, quantity)
                    subscription == subs[subscription_id]
                    product == products[product_id]
                IN  /\ Len(pre_orders) < env.max_pre_orders
                    /\ pre_orders' = Append(pre_orders, pre_order)
                    /\ products' = counted
                    /\ subs' = [subs EXCEPT
                           ![subscription_id].current_month_preorders = @ + 1,
                           ![subscription_id].current_preorder_value =
                               FAdd(@, pre_order.total_amount)]
                    /\ last' = [Call("create_pre_order", "ok",
                                     subscription_id, Len(pre_orders) + 1)
                                EXCEPT !.order_total =
                                           OrderTotal(subscription, product, quantity),
                                       !.before =
                                           <<subscription.current_month_preorders,
                                             subscription.current_preorder_value,
                                             product.current_pre_orders>>]
                    /\ UNCHANGED <<now, sweep, env, inflight>>

create_pre_order(subscription_id, product_id, quantity) ==
    LET error == CreatePreOrderCheck(subscription_id, product_id, quantity)
    IN  /\ Requested("create_pre_order")
        /\ IF error # "ok"
           THEN Rejected("create_pre_order", error, subscription_id, 0)
           ELSE LET pre_order == NewPreOrder(subscription_id, product_id, quantity)
                    subscription == subs[subscription_id]
                    product == products[product_id]
                IN  /\ Len(pre_orders) < env.max_pre_orders
                    /\ pre_orders' = Append(pre_orders, pre_order)
                    /\ products' = [products EXCEPT ![product_id].current_pre_orders =
                                       @ + quantity]
                    /\ subs' = [subs EXCEPT
                           ![subscription_id].current_month_preorders = @ + 1,
                           ![subscription_id].current_preorder_value =
                               FAdd(@, pre_order.total_amount)]
                    /\ last' = [Call("create_pre_order", "ok",
                                     subscription_id, Len(pre_orders) + 1)
                                EXCEPT !.order_total =
                                           OrderTotal(subscription, product, quantity),
                                       !.before =
                                           <<subscription.current_month_preorders,
                                             subscription.current_preorder_value,
                                             product.current_pre_orders>>]
                    /\ UNCHANGED <<now, sweep, env, inflight>>

(***************************************************************************)
(* cancel_pre_order                                                        *)
(***************************************************************************)
\* The store after cancel_pre_order has set the status and decremented the
\* counters of the pre-order's product and subscription; payment_status is
\* set to "refunded" when the payment was charged and the refund returned.
Cancelled(db, pre_order_id) ==
    LET pre_order == db.pre_orders[pre_order_id]
    IN  [pre_orders |->
            [db.pre_orders EXCEPT
                ![pre_order_id].status = "cancelled",
                ![pre_order_id].payment_status =
                    IF @ = "charged" THEN "refunded" ELSE @],
         products |->
            [db.products EXCEPT ![pre_order.product_id].current_pre_orders =
                @ - pre_order.quantity],
         subs |->
            [db.subs EXCEPT
                ![pre_order.subscription_id].current_month_preorders = @ - 1,
                ![pre_order.subscription_id].current_preorder_value =
                    FSub(@, pre_order.total_amount)]]

Store == [subs |-> subs, products |-> products, pre_orders |-> pre_orders]

Commit(db) ==
    /\ subs' = db.subs
    /\ products' = db.products
    /\ pre_orders' = db.pre_orders

\* The checks of cancel_pre_order without the one for a pre-order that is
\* cancelled already.
CancelPreOrderCheckOnce(pre_order_id) ==
    IF pre_order_id \notin PreOrderIds
    THEN "Pre-order not found"
    ELSE IF pre_orders[pre_order_id].status \in {"processing", "fulfilled"}
    THEN "Cannot cancel pre-order in current status"
    ELSE "ok"

\* The error cancel_pre_order raises before it changes anything, or "ok".
CancelPreOrderCheck(pre_order_id) ==
    IF pre_order_id \notin PreOrderIds
    THEN "Pre-order not found"
    ELSE IF pre_orders[pre_order_id].status = "cancelled"
    THEN "Pre-order already cancelled"
    ELSE IF pre_orders[pre_order_id].status \in {"processing", "fulfilled"}
    THEN "Cannot cancel pre-order in current status"
    ELSE "ok"

\* A refund that raises leaves cancel_pre_order before its commit.
cancel_pre_order(pre_order_id, refund) ==
    LET error == CancelPreOrderCheck(pre_order_id)
    IN  /\ Requested("cancel_pre_order")
        /\ IF error # "ok"
           THEN Rejected("cancel_pre_order", error, 0, pre_order_id)
           ELSE IF pre_orders[pre_order_id].payment_status = "charged" /\ refund = "failed"
           THEN Rejected("cancel_pre_order", "Refund failed", 0, pre_order_id)
           ELSE /\ Commit(Cancelled(Store, pre_order_id))
                /\ last' = Call("cancel_pre_order", "ok",
                                pre_orders[pre_order_id].subscription_id, pre_order_id)
                /\ UNCHANGED <<now, sweep, env, inflight>>

\* The column a session's commit leaves in the database: its UPDATE sets the
\* column to the value the session holds when that differs from the value it
\* loaded, and leaves out a column it has not changed.
Written(column, loaded, held) == IF held = loaded THEN column ELSE held

\* The database after the commit of a cancel_pre_order whose session loaded
\* the pre-order, its product and its subscription as they are in `loaded`.
CommittedCancel(loaded, pre_order_id) ==
    LET held == Cancelled(loaded, pre_order_id)
        p == loaded.pre_orders[pre_order_id].product_id
        s == loaded.pre_orders[pre_order_id].subscription_id
    IN  [pre_orders |->
            [pre_orders EXCEPT
                ![pre_order_id].status =
                    Written(@, loaded.pre_orders[pre_order_id].status,
                            held.pre_orders[pre_order_id].status),
                ![pre_order_id].payment_status =
                    Written(@, loaded.pre_orders[pre_order_id].payment_status,
                            held.pre_orders[pre_order_id].payment_status)],
         products |->
            [products EXCEPT ![p].current_pre_orders =
                Written(@, loaded.products[p].current_pre_orders,
                        held.products[p].current_pre_orders)],
         subs |->
            [subs EXCEPT
                ![s].current_month_preorders =
                    Written(@, loaded.subs[s].current_month_preorders,
                            held.subs[s].current_month_preorders),
                ![s].current_preorder_value =
                    Written(@, loaded.subs[s].current_preorder_value,
                            held.subs[s].current_preorder_value)]]

\* cancel_pre_order up to its await of refund_payment: the checks have passed,
\* the session holds the cancelled status and the decremented counters, and
\* nothing is committed.
cancel_pre_order_suspended(pre_order_id) ==
    /\ Requested("cancel_pre_order")
    /\ "refund_payment" \in env.ops
    /\ inflight = NoRequest
    /\ CancelPreOrderCheck(pre_order_id) = "ok"
    /\ pre_orders[pre_order_id].payment_status = "charged"
    /\ inflight' = [pre_order_id |-> pre_order_id, loaded |-> Store]
    /\ last' = Call("cancel_pre_order", "refund_payment",
                    pre_orders[pre_order_id].subscription_id, pre_order_id)
    /\ UNCHANGED <<now, subs, products, pre_orders, sweep, env>>

\* refund_payment returns to the suspended cancel_pre_order, which commits
\* what its session holds, or raises, which ends the call before its commit.
cancel_pre_order_resumed(refund) ==
    /\ inflight # NoRequest
    /\ env.concurrent \/ ~sweep.running
    /\ IF refund = "failed"
       THEN /\ last' = Call("cancel_pre_order", "Refund failed", 0,
                            inflight.pre_order_id)
            /\ UNCHANGED <<subs, products, pre_orders>>
       ELSE /\ Commit(CommittedCancel(inflight.loaded, inflight.pre_order_id))
            /\ last' = Call("cancel_pre_order", "ok",
                    inflight.loaded.pre_orders[inflight.pre_order_id].subscription_id,
                    inflight.pre_order_id)
    /\ inflight' = NoRequest
    /\ UNCHANGED <<now, sweep, env>>

\* The fulfilment and payment processes outside this service move a pre-order
\* through the statuses the model declares.
NextStatus(status) ==
    IF status = "pending" THEN "confirmed"
    ELSE IF status = "confirmed" THEN "processing"
    ELSE "fulfilled"

Fulfilment(pre_order_id) ==
    /\ Requested("fulfilment")
    /\ pre_order_id \in PreOrderIds
    /\ pre_orders[pre_order_id].status \in {"pending", "confirmed", "processing"}
    /\ pre_orders' = [pre_orders EXCEPT ![pre_order_id].status = NextStatus(@)]
    /\ last' = Call("fulfilment", "ok", pre_orders[pre_order_id].subscription_id,
                    pre_order_id)
    /\ UNCHANGED <<now, subs, products, sweep, env, inflight>>

PaymentCharged(pre_order_id) ==
    /\ Requested("payment")
    /\ pre_order_id \in PreOrderIds
    /\ pre_orders[pre_order_id].status # "cancelled"
    /\ pre_orders[pre_order_id].payment_status = "pending"
    /\ pre_orders' = [pre_orders EXCEPT ![pre_order_id].payment_status = "charged"]
    /\ last' = Call("payment", "ok", pre_orders[pre_order_id].subscription_id,
                    pre_order_id)
    /\ UNCHANGED <<now, subs, products, sweep, env, inflight>>

(***************************************************************************)
(* pause_subscription, resume_subscription, cancel_subscription            *)
(***************************************************************************)
\* A pause_subscription that pauses a subscription in any status.
PauseAnyStatus(subscription_id) ==
    /\ Requested("pause_subscription")
    /\ IF subscription_id \notin SubIds
       THEN Rejected("pause_subscription", "Subscription not found", subscription_id, 0)
       ELSE /\ subs' = [subs EXCEPT ![subscription_id].status = "paused"]
            /\ last' = Call("pause_subscription", "ok", subscription_id, 0)
            /\ UNCHANGED <<now, products, pre_orders, sweep, env, inflight>>

pause_subscription(subscription_id) ==
    /\ Requested("pause_subscription")
    /\ IF subscription_id \notin SubIds
       THEN Rejected("pause_subscription", "Subscription not found", subscription_id, 0)
       ELSE IF subs[subscription_id].status # "active"
       THEN Rejected("pause_subscription", "Can only pause active subscriptions",
                     subscription_id, 0)
       ELSE /\ subs' = [subs EXCEPT ![subscription_id].status = "paused"]
            /\ last' = Call("pause_subscription", "ok", subscription_id, 0)
            /\ UNCHANGED <<now, products, pre_orders, sweep, env, inflight>>

\* A resume_subscription that resumes every subscription that is not active.
ResumeNotActive(subscription_id) ==
    /\ Requested("resume_subscription")
    /\ IF subscription_id \notin SubIds
       THEN Rejected("resume_subscription", "Subscription not found", subscription_id, 0)
       ELSE IF subs[subscription_id].status = "active"
       THEN Rejected("resume_subscription", "Can only resume paused subscriptions",
                     subscription_id, 0)
       ELSE /\ subs' = [subs EXCEPT ![subscription_id].status = "active"]
            /\ last' = Call("resume_subscription", "ok", subscription_id, 0)
            /\ UNCHANGED <<now, products, pre_orders, sweep, env, inflight>>

resume_subscription(subscription_id) ==
    /\ Requested("resume_subscription")
    /\ IF subscription_id \notin SubIds
       THEN Rejected("resume_subscription", "Subscription not found", subscription_id, 0)
       ELSE IF subs[subscription_id].status # "paused"
       THEN Rejected("resume_subscription", "Can only resume paused subscriptions",
                     subscription_id, 0)
       ELSE /\ subs' = [subs EXCEPT ![subscription_id].status = "active"]
            /\ last' = Call("resume_subscription", "ok", subscription_id, 0)
            /\ UNCHANGED <<now, products, pre_orders, sweep, env, inflight>>

\* The orders in which the loop over the pending pre-orders can visit them.
RECURSIVE Orders(_)
Orders(S) ==
    IF S = {} THEN {<<>>}
    ELSE UNION {{<<x>> \o t : t \in Orders(S \ {x})} : x \in S}

\* The store after the first k pre-orders of an order have been cancelled.
RECURSIVE CancelledAll(_, _, _)
CancelledAll(db, order, k) ==
    IF k = 0 THEN db
    ELSE Cancelled(CancelledAll(db, order, k - 1), order[k])

PendingPreOrders(subscription_id) ==
    {i \in PreOrderIds :
        /\ pre_orders[i].subscription_id = subscription_id
        /\ pre_orders[i].status = "pending"}

\* A cancel_subscription that leaves the subscription active until the end
\* of its period when the cancellation is not immediate.
CancelledAtEndOfPeriod(subscription, immediate) ==
    IF immediate
    THEN [subscription EXCEPT !.status = "cancelled", !.end_date = now]
    ELSE [subscription EXCEPT !.auto_renew = FALSE]

\* The subscription as cancel_subscription changes it before the cascade.
CancelledSubscription(subscription, immediate) ==
    IF immediate
    THEN [subscription EXCEPT !.status = "cancelled", !.end_date = now]
    ELSE [subscription EXCEPT !.auto_renew = FALSE, !.status = "cancelled"]

\* cancel_subscription changes the subscription in its session and cancels
\* the pending pre-orders one by one through cancel_pre_order, which commits
\* the session each time.  done is the number of pre-orders cancelled when
\* the call ends: all of them, or fewer when a refund or a notification of
\* the cascade raised; what was committed until then stays.
cancel_subscription(subscription_id, immediate, order, done) ==
    /\ Requested("cancel_subscription")
    /\ IF subscription_id \notin SubIds
       THEN Rejected("cancel_subscription", "Subscription not found", subscription_id, 0)
       ELSE IF subs[subscription_id].status = "cancelled"
       THEN Rejected("cancel_subscription", "Subscription already cancelled",
                     subscription_id, 0)
       ELSE LET changed == [Store EXCEPT !.subs[subscription_id] =
                               CancelledSubscription(@, immediate)]
                first_raises ==
                   /\ Len(order) > 0
                   /\ pre_orders[order[1]].payment_status = "charged"
            IN  /\ order \in Orders(PendingPreOrders(subscription_id))
                /\ done \in 0..Len(order)
                /\ IF done = 0 /\ Len(order) > 0
                   THEN \* the refund of the first pre-order raised: nothing was
                        \* committed
                        /\ first_raises
                        /\ Rejected("cancel_subscription", "Refund failed",
                                    subscription_id, 0)
                   ELSE /\ Commit(CancelledAll(changed, order, done))
                        /\ last' = Call("cancel_subscription",
                                        IF done < Len(order)
                                        THEN "Cascade failed" ELSE "ok",
                                        subscription_id, 0)
                        /\ UNCHANGED <<now, sweep, env, inflight>>

(***************************************************************************)
(* process_billing_cycle and _process_subscription_renewal                 *)
(***************************************************************************)
DueSubscriptions ==
    {s \in SubIds :
        /\ subs[s].status = "active"
        /\ subs[s].auto_renew
        /\ subs[s].next_billing_date <= now}

\* The billing task calls process_billing_cycle, which selects the due
\* subscriptions.
process_billing_cycle ==
    /\ "process_billing_cycle" \in env.ops
    /\ ~sweep.running
    /\ sweep' = [NoSweep EXCEPT !.running = TRUE, !.selected = DueSubscriptions,
                                !.due = DueSubscriptions]
    /\ last' = Call("process_billing_cycle", "ok", 0, 0)
    /\ UNCHANGED <<now, subs, products, pre_orders, env, inflight>>

\* A renewal that counts the next period from the day of the sweep and not
\* from the billing date.
RenewedFromToday(subscription) ==
    LET plan == PlanTable[subscription.subscription_plan_id]
        next_billing_date == now + Period(plan.billing_frequency)
    IN  [subscription EXCEPT
            !.next_billing_date = next_billing_date,
            !.end_date = next_billing_date,
            !.current_month_preorders = 0,
            !.current_preorder_value = FromInt(0)]

\* A renewal that moves an overdue billing date on by a second period when
\* one period leaves it in the past.
RenewedUntilCurrent(subscription) ==
    LET plan == PlanTable[subscription.subscription_plan_id]
        period == Period(plan.billing_frequency)
        next_billing_date ==
            IF subscription.next_billing_date + period <= now
            THEN subscription.next_billing_date + 2 * period
            ELSE subscription.next_billing_date + period
    IN  [subscription EXCEPT
            !.next_billing_date = next_billing_date,
            !.end_date = next_billing_date,
            !.current_month_preorders = 0,
            !.current_preorder_value = FromInt(0)]

\* A renewal that moves the billing date on and leaves the end of the
\* period where it was.
RenewedBillingDateOnly(subscription) ==
    LET plan == PlanTable[subscription.subscription_plan_id]
    IN  [subscription EXCEPT
            !.next_billing_date = @ + Period(plan.billing_frequency),
            !.current_month_preorders = 0,
            !.current_preorder_value = FromInt(0)]

\* The subscription after a successful charge.
Renewed(subscription) ==
    LET plan == PlanTable[subscription.subscription_plan_id]
        next_billing_date ==
            subscription.next_billing_date + Period(plan.billing_frequency)
    IN  [subscription EXCEPT
            !.next_billing_date = next_billing_date,
            !.end_date = IF Period(plan.billing_frequency) = NoPeriod
                         THEN @ ELSE next_billing_date,
            !.current_month_preorders = 0,
            !.current_preorder_value = FromInt(0)]

\* A turn of the loop that moves the billing date on although the charge
\* failed.
RenewalDespiteFailure(subscription_id, payment, success, failure) ==
    LET caught == payment = "failed" \/ success = "failed"
        raised == caught /\ failure = "failed"
    IN  /\ sweep.running /\ ~sweep.aborted
        /\ subscription_id \in sweep.due
        /\ subs' = [subs EXCEPT ![subscription_id] = Renewed(@)]
        /\ sweep' = [sweep EXCEPT
                        !.due = @ \ {subscription_id},
                        !.charged = IF payment = "ok"
                                    THEN @ \cup {subscription_id} ELSE @,
                        !.failed = IF payment = "failed"
                                   THEN @ \cup {subscription_id} ELSE @,
                        !.aborted = raised]
        /\ last' = Call("renewal",
                        IF payment = "failed" THEN "Payment failed"
                        ELSE IF caught THEN "Notification failed" ELSE "ok",
                        subscription_id, 0)
        /\ UNCHANGED <<now, products, pre_orders, env, inflight>>

\* One turn of the loop of process_billing_cycle: the renewal of one of the
\* subscriptions selected, in whatever order the query returned them.  A
\* failed charge, and a failed billing-success notification, are caught by
\* the loop, which then sends the billing-failed notification; when that one
\* raises, the exception leaves the loop and the sweep.
\* payment, success and failure are the outcomes of charge_subscription,
\* send_billing_success and send_billing_failed.
_process_subscription_renewal(subscription_id, payment, success, failure) ==
    LET caught == payment = "failed" \/ success = "failed"
        raised == caught /\ failure = "failed"
    IN  /\ sweep.running /\ ~sweep.aborted /\ sweep.waiting = 0
        /\ subscription_id \in sweep.due
        /\ subs' = IF payment = "ok"
                   THEN [subs EXCEPT ![subscription_id] = Renewed(@)]
                   ELSE subs
        /\ sweep' = [sweep EXCEPT
                        !.due = @ \ {subscription_id},
                        !.charged = IF payment = "ok"
                                    THEN @ \cup {subscription_id} ELSE @,
                        !.failed = IF payment = "failed"
                                   THEN @ \cup {subscription_id} ELSE @,
                        !.aborted = raised]
        /\ last' = Call("renewal",
                        IF payment = "failed" THEN "Payment failed"
                        ELSE IF caught THEN "Notification failed" ELSE "ok",
                        subscription_id, 0)
        /\ UNCHANGED <<now, products, pre_orders, env, inflight>>

\* process_billing_cycle returns to the billing task, or raises to it; the
\* task prints the outcome and sleeps until the next sweep.
\* A turn of the loop whose charge_subscription never returns: the loop
\* stays at that await, which no timeout bounds.
charge_never_returns(subscription_id) ==
    /\ sweep.running /\ ~sweep.aborted /\ sweep.waiting = 0
    /\ subscription_id \in sweep.due
    /\ sweep' = [sweep EXCEPT !.waiting = subscription_id]
    /\ last' = Call("charge_subscription", "never returns", subscription_id, 0)
    /\ UNCHANGED <<now, subs, products, pre_orders, env, inflight>>

billing_cycle_task ==
    /\ sweep.running /\ sweep.waiting = 0
    /\ sweep.due = {} \/ sweep.aborted
    /\ sweep' = NoSweep
    /\ last' = Call("billing_cycle_task",
                    IF sweep.aborted THEN "Error in billing cycle" ELSE "ok", 0, 0)
    /\ UNCHANGED <<now, subs, products, pre_orders, env, inflight>>

(***************************************************************************)
(* The clock.                                                              *)
(***************************************************************************)
Tick ==
    /\ ~sweep.running
    /\ inflight = NoRequest
    /\ now + env.tick <= env.last_day
    /\ now' = now + env.tick
    /\ last' = Call("tick", "ok", 0, 0)
    /\ UNCHANGED <<subs, products, pre_orders, sweep, env, inflight>>

Next ==
    \/ \E c \in env.customers, p \in env.plans, a \in env.auto_renew,
          pay \in PaymentOutcomes :
            create_subscription(c, p, a, pay)
    \/ \E s \in 1..env.max_subs, p \in env.products, q \in env.quantities :
            create_pre_order(s, p, q)
    \/ \E i \in 1..env.max_pre_orders, r \in PaymentOutcomes :
            cancel_pre_order(i, r)
    \/ \E i \in 1..env.max_pre_orders : cancel_pre_order_suspended(i)
    \/ \E r \in PaymentOutcomes : cancel_pre_order_resumed(r)
    \/ \E i \in PreOrderIds : Fulfilment(i)
    \/ \E i \in PreOrderIds : PaymentCharged(i)
    \/ \E s \in 1..env.max_subs : pause_subscription(s)
    \/ \E s \in 1..env.max_subs : resume_subscription(s)
    \/ \E s \in 1..env.max_subs, im \in BOOLEAN :
        \E order \in Orders(IF s \in SubIds THEN PendingPreOrders(s) ELSE {}) :
            \E done \in 0..Len(order) :
                cancel_subscription(s, im, order, done)
    \/ process_billing_cycle
    \/ \E s \in SubIds, pay \in PaymentOutcomes,
          n1 \in NotificationOutcomes, n2 \in NotificationOutcomes :
            _process_subscription_renewal(s, pay, n1, n2)
    \/ billing_cycle_task
    \/ Tick

Spec == Init /\ [][Next]_vars

\* The billing task runs a sweep every day for as long as the service is
\* up, a sweep goes on as long as the calls it awaits return, and the charge
\* of a subscription that comes up in sweep after sweep succeeds in the end.
Fairness ==
    /\ WF_vars(process_billing_cycle)
    /\ WF_vars(billing_cycle_task)
    /\ \A s \in 1..MaxSubs :
          SF_vars(\E n1 \in NotificationOutcomes, n2 \in NotificationOutcomes :
                     _process_subscription_renewal(s, "ok", n1, n2))

LiveSpec == Spec /\ Fairness

\* The program with a payment service that may leave a charge of the sweep
\* unanswered for ever.
NextStuck ==
    \/ Next
    \/ \E s \in SubIds : charge_never_returns(s)

StuckSpec == Init /\ [][NextStuck]_vars /\ Fairness

(***************************************************************************)
(* Properties.                                                             *)
(***************************************************************************)
CountError == "Monthly pre-order limit exceeded"
ValueError == "Monthly pre-order value limit exceeded"
CapacityError == "Pre-order quantity exceeds available limit"

\* The call recorded in last is an accepted create_pre_order.
CreatedLast == last.op = "create_pre_order" /\ last.result = "ok"

\* C1: in every reachable state every subscription has
\* current_month_preorders >= 0 and current_preorder_value >= 0.
C1_CountersNonNegative ==
    \A s \in SubIds :
        /\ subs[s].current_month_preorders >= 0
        /\ subs[s].current_preorder_value >= 0

\* C2: create_pre_order on a subscription whose stored counter is at its
\* limit is rejected, so that in every reachable state a subscription with
\* monthly_preorder_limit > 0 has current_month_preorders at most the limit.
C2_CounterWithinLimit ==
    \A s \in SubIds :
        subs[s].monthly_preorder_limit > 0 =>
            subs[s].current_month_preorders <= subs[s].monthly_preorder_limit

\* C3: a create_pre_order call that is rejected, for whatever reason, leaves
\* the products, the subscriptions and the pre-orders as they were.
C3_RejectedCreateChangesNothing ==
    [][last'.op = "create_pre_order" /\ last'.result # "ok" =>
           /\ UNCHANGED store
           /\ last'.result \in
                 {"Active subscription not found",
                  "Product not found or not eligible for pre-order",
                  "Pre-order period has not started yet",
                  "Pre-order period has ended",
                  CapacityError, CountError, ValueError}]_vars

\* A create_pre_order has been rejected by the value quota, with pre-orders
\* and counters in the store to lose.
C3_Witness ==
    /\ last.op = "create_pre_order"
    /\ last.result = ValueError
    /\ last.sub \in SubIds
    /\ subs[last.sub].current_month_preorders > 0
    /\ pre_orders # <<>>

\* C4: when an accepted create_pre_order is directly followed by the
\* cancel_pre_order of the pre-order it created, the subscription's
\* current_month_preorders and current_preorder_value and the product's
\* current_pre_orders are the values they had before the create.
C4_CreateThenCancelRestores ==
    [][/\ CreatedLast
       /\ last'.op = "cancel_pre_order" /\ last'.result = "ok"
       /\ last'.po = last.po
       => LET pre_order == pre_orders[last.po]
          IN  <<subs'[pre_order.subscription_id].current_month_preorders,
                subs'[pre_order.subscription_id].current_preorder_value,
                products'[pre_order.product_id].current_pre_orders>>
              = last.before]_vars

\* C5: every pre-order has unit_price = the product's pre_order_price if it
\* is set (not NULL) and base_price otherwise, total_amount =
\* (unit_price - unit_price * discount_percentage / 100) * quantity and
\* discount_applied = unit_price * discount_percentage / 100 * quantity, in
\* the floats and the order of operations of the code, with the
\* discount_percentage of the subscription's plan; and the order_total the
\* quota check evaluated for it is its total_amount.
C5_PreOrderPricing ==
    /\ \A i \in PreOrderIds :
          LET pre_order == pre_orders[i]
              product == ProductTable[pre_order.product_id]
              plan == PlanTable[subs[pre_order.subscription_id].subscription_plan_id]
              unit_price == IF product.pre_order_price # Null
                            THEN product.pre_order_price
                            ELSE product.base_price
              discount == FMul(unit_price,
                               FDiv(plan.discount_percentage, FromInt(100)))
          IN  /\ pre_order.unit_price = unit_price
              /\ pre_order.total_amount =
                    FMul(FSub(unit_price, discount), FromInt(pre_order.quantity))
              /\ pre_order.discount_applied =
                    FMul(discount, FromInt(pre_order.quantity))
    /\ CreatedLast => last.order_total = pre_orders[last.po].total_amount

\* C6: a renewal whose charge succeeds takes a subscription with
\* next_billing_date = D to next_billing_date = D + 30, 90 or 365 days for a
\* monthly, quarterly or annual plan, end_date = the new next_billing_date,
\* current_month_preorders = 0 and current_preorder_value = 0, and changes
\* nothing else of it.
C6_RenewalAdvancesAndResets ==
    [][last'.op = "renewal" /\ last'.result # "Payment failed" =>
           LET s == last'.sub
               freq == PlanTable[subs[s].subscription_plan_id].billing_frequency
               days == CASE freq = "monthly" -> 30
                         [] freq = "quarterly" -> 90
                         [] freq = "annually" -> 365
               D == subs[s].next_billing_date
           IN  /\ s \in sweep.selected
               /\ subs' = [subs EXCEPT ![s] =
                             [@ EXCEPT !.next_billing_date = D + days,
                                       !.end_date = D + days,
                                       !.current_month_preorders = 0,
                                       !.current_preorder_value = 0]]]_vars

\* A subscription with pre-orders counted has been renewed after its billing
\* date had passed, and its counters are zero.
C6_Witness ==
    /\ last.op = "renewal" /\ last.result = "ok"
    /\ subs[last.sub].next_billing_date <= now
    /\ subs[last.sub].next_billing_date > subs[last.sub].start_date + MonthlyDays
    /\ subs[last.sub].current_month_preorders = 0
    /\ \E i \in PreOrderIds :
          /\ pre_orders[i].subscription_id = last.sub
          /\ pre_orders[i].status # "cancelled"

\* C7: after the payment of one subscription of a sweep has failed, the
\* sweep still visits the subscriptions it has selected and not yet charged:
\* it is not aborted while any of them is waiting.
C7_FailureDoesNotStopSweep ==
    last.op = "renewal" /\ last.result = "Payment failed" /\ sweep.due # {}
        => ~sweep.aborted

\* C8: in every reachable state a product whose pre_order_limit is not NULL
\* has current_pre_orders <= pre_order_limit.
C8_ProductWithinCapacity ==
    \A p \in ProductIds :
        products[p].pre_order_limit # Null =>
            products[p].current_pre_orders <= products[p].pre_order_limit

\* The pre-orders a step cancels and the pre-orders it creates.
NewlyCancelled ==
    {i \in PreOrderIds :
        pre_orders[i].status # "cancelled" /\ pre_orders'[i].status = "cancelled"}
NewlyCreated == DOMAIN pre_orders' \ PreOrderIds

\* The units of the pre-orders ids of table O on product p.
RECURSIVE Units(_, _, _, _)
Units(O, ids, p, upto) ==
    IF upto = 0 THEN 0
    ELSE Units(O, ids, p, upto - 1)
           + IF upto \in ids /\ O[upto].product_id = p THEN O[upto].quantity ELSE 0

\* A cancel_pre_order that was suspended at its refund commits.
ResumedCommit ==
    /\ inflight # NoRequest /\ inflight' = NoRequest
    /\ last'.op = "cancel_pre_order" /\ last'.result = "ok"

\* Subscription s has been renewed since the suspended cancel_pre_order
\* loaded it.
RenewedSinceLoaded(s) ==
    /\ inflight # NoRequest
    /\ s \in DOMAIN inflight.loaded.subs
    /\ subs[s].next_billing_date # inflight.loaded.subs[s].next_billing_date

\* The step is the second half of a cancel_pre_order that passed its checks
\* before it waited for the refund.
Resumed == inflight # NoRequest /\ inflight' = NoRequest

\* A cancel_pre_order that was suspended at its refund commits over a
\* database that other calls have changed since it loaded its rows.
StaleCommit == ResumedCommit /\ Store # inflight.loaded

\* C9: cancel_pre_order on a pre-order that is processing, fulfilled or
\* cancelled is rejected and leaves the pre-orders, the products and the
\* subscriptions as they were; a cancelled pre-order never changes again, and
\* every step counts on each product and, unless it is a renewal, on each
\* subscription exactly the pre-orders it creates and cancels, so that the
\* counters are decremented at most once per pre-order.  The call is one
\* that finds the pre-order in that status; the commit of a call that has
\* waited for its refund while other calls changed the database is a
\* different case, with properties of its own.
C9_ClosedPreOrderNotCancelled ==
    [][/\ last'.op = "cancel_pre_order" /\ last'.po \in PreOrderIds
          /\ pre_orders[last'.po].status \in {"processing", "fulfilled", "cancelled"}
          /\ ~Resumed
          => /\ last'.result \in {"Pre-order already cancelled",
                                  "Cannot cancel pre-order in current status"}
             /\ UNCHANGED store
       /\ \A i \in PreOrderIds :
             pre_orders[i].status = "cancelled" => pre_orders'[i] = pre_orders[i]
       /\ \A p \in ProductIds :
             ~StaleCommit =>
             products'[p].current_pre_orders =
                 products[p].current_pre_orders
                   + Units(pre_orders', NewlyCreated, p, Len(pre_orders'))
                   - Units(pre_orders, NewlyCancelled, p, Len(pre_orders))
       /\ \A s \in SubIds :
             last'.op # "renewal" /\ ~StaleCommit =>
                 subs'[s].current_month_preorders =
                     subs[s].current_month_preorders
                       + Cardinality({i \in NewlyCreated :
                                        pre_orders'[i].subscription_id = s})
                       - Cardinality({i \in NewlyCancelled :
                                        pre_orders[i].subscription_id = s})]_vars

\* cancel_pre_order has been refused on a pre-order in processing, on a
\* subscription that has another pre-order cancelled.
C9_Witness ==
    /\ last.op = "cancel_pre_order"
    /\ last.result = "Cannot cancel pre-order in current status"
    /\ pre_orders[last.po].status = "processing"
    /\ \E i \in PreOrderIds : pre_orders[i].status = "cancelled"

\* The number of pre-orders the count quota of a subscription counts today.
QuotaCount(s) == Cardinality(CurrentMonthOrders(pre_orders, s, now))

\* The subscription has not been renewed and all its pre-orders are of the
\* current calendar month.
SameMonthNoRenewal(s) ==
    /\ subs[s].next_billing_date =
          subs[s].start_date
            + Period(PlanTable[subs[s].subscription_plan_id].billing_frequency)
    /\ \A i \in PreOrderIds :
          pre_orders[i].subscription_id = s =>
              pre_orders[i].created_at >= MonthStart(now)

\* C10: for a subscription with monthly_preorder_limit = N > 0, within one
\* calendar month and without a renewal, current_month_preorders is the
\* number of its pre-orders that are not cancelled; while that number is
\* below N create_pre_order is never refused by the count quota and is
\* accepted when the other checks pass, at N it is refused with the count
\* quota error once the checks before the quota pass, and a cancel_pre_order
\* takes the number down by one.
C10_CountQuotaScenario ==
    [][\A s \in SubIds :
          subs[s].monthly_preorder_limit > 0 /\ SameMonthNoRenewal(s) =>
             LET N == subs[s].monthly_preorder_limit
                 before_quota ==
                     {"Active subscription not found",
                      "Product not found or not eligible for pre-order",
                      "Pre-order period has not started yet",
                      "Pre-order period has ended", CapacityError}
             IN  /\ subs[s].current_month_preorders = QuotaCount(s)
                 /\ last'.op = "create_pre_order" /\ last'.sub = s =>
                       IF QuotaCount(s) < N
                       THEN /\ last'.result \in before_quota \cup {ValueError, "ok"}
                            /\ last'.result = "ok" =>
                                  subs'[s].current_month_preorders = QuotaCount(s) + 1
                       ELSE last'.result \in before_quota \cup {CountError}
                 /\ last'.op = "cancel_pre_order" /\ last'.result = "ok"
                    /\ last'.sub = s =>
                       /\ subs'[s].current_month_preorders = QuotaCount(s) - 1
                       /\ Cardinality(CurrentMonthOrders(pre_orders', s, now))
                             = QuotaCount(s) - 1]_vars

\* Within one month and with no renewal, a subscription with a limit of 2 has
\* had a pre-order cancelled and another accepted after it, which brings it
\* back to its limit.
C10_Witness ==
    /\ CreatedLast
    /\ subs[last.sub].monthly_preorder_limit = 2
    /\ SameMonthNoRenewal(last.sub)
    /\ subs[last.sub].current_month_preorders = 2
    /\ \E i \in PreOrderIds :
          /\ pre_orders[i].subscription_id = last.sub
          /\ pre_orders[i].status = "cancelled"
          /\ i < last.po

\* C11: for a subscription with total_preorder_value_limit = L > 0, a
\* create_pre_order that passes the checks before the value quota is refused
\* with the value quota error exactly when the sum of the total_amount of
\* its pre-orders of the current calendar month that are not cancelled, plus
\* the total of the order, is greater than L (sums in the floats of the
\* code); an order that takes the sum to L exactly is accepted.
C11_ValueQuotaExact ==
    [][last'.op = "create_pre_order" /\ last'.result \in {"ok", ValueError} =>
       \A s \in SubIds, p \in ProductIds, q \in Quantities :
          /\ subs[s].total_preorder_value_limit > 0
          /\ create_pre_order(s, p, q)
          => LET L == subs[s].total_preorder_value_limit
                 counted == {i \in PreOrderIds :
                               /\ pre_orders[i].subscription_id = s
                               /\ pre_orders[i].status # "cancelled"
                               /\ pre_orders[i].created_at >= MonthStart(now)}
                 sum == SumTotals(pre_orders, counted, Len(pre_orders))
                 total == OrderTotal(subs[s], products[p], q)
             IN  last'.result = ValueError <=> FAdd(sum, total) > L]_vars

\* An accepted pre-order has taken the month's sum of a subscription with a
\* value limit to the limit exactly.
C11_Witness ==
    /\ CreatedLast
    /\ subs[last.sub].total_preorder_value_limit > 0
    /\ Cardinality(CurrentMonthOrders(pre_orders, last.sub, now)) > 1
    /\ CurrentMonthValue(pre_orders, last.sub, now)
          = subs[last.sub].total_preorder_value_limit

\* C14: pause_subscription succeeds exactly on an active subscription and
\* resume_subscription exactly on a paused one; a refused call leaves the
\* store as it was, and a successful one changes the status of the
\* subscription and nothing else of the store.
C14_PauseResume ==
    [][last'.op \in {"pause_subscription", "resume_subscription"}
       /\ last'.sub \in SubIds =>
          LET s == last'.sub
              from == IF last'.op = "pause_subscription" THEN "active" ELSE "paused"
              to == IF last'.op = "pause_subscription" THEN "paused" ELSE "active"
          IN  /\ last'.result = "ok" <=> subs[s].status = from
              /\ last'.result = "ok" =>
                    /\ subs' = [subs EXCEPT ![s].status = to]
                    /\ UNCHANGED <<products, pre_orders>>
              /\ last'.result # "ok" => UNCHANGED store]_vars

\* A subscription with a pre-order counted has been paused and resumed.
C14_Witness ==
    /\ last.op = "resume_subscription" /\ last.result = "ok"
    /\ subs[last.sub].status = "active"
    /\ subs[last.sub].current_month_preorders > 0
    /\ \E i \in PreOrderIds : pre_orders[i].subscription_id = last.sub

\* C15: a subscription whose status is cancelled keeps that status in every
\* step, and cancel_subscription on it is refused and changes nothing.
C15_CancelledIsTerminal ==
    [][/\ \A s \in SubIds :
             subs[s].status = "cancelled" => subs'[s].status = "cancelled"
       /\ last'.op = "cancel_subscription" /\ last'.sub \in SubIds
          /\ subs[last'.sub].status = "cancelled"
          => /\ last'.result = "Subscription already cancelled"
             /\ UNCHANGED store]_vars

\* A second cancel_subscription of a cancelled subscription has been
\* refused.
C15_Witness ==
    /\ last.op = "cancel_subscription"
    /\ last.result = "Subscription already cancelled"
    /\ subs[last.sub].status = "cancelled"

\* C16: create_subscription for a customer who holds an active subscription,
\* on a plan that exists and is active, is refused as a duplicate whatever
\* the charge would answer (the charge is not reached), and adds nothing.
C16_DuplicateRejected ==
    [][last'.op = "create_subscription" =>
       \A c \in Customers, p \in PlanIds, a \in BOOLEAN, pay \in PaymentOutcomes :
          /\ \E s \in SubIds : subs[s].customer_id = c /\ subs[s].status = "active"
          /\ PlanTable[p].is_active
          /\ create_subscription(c, p, a, pay)
          => /\ last'.result = "Customer already has an active subscription"
             /\ UNCHANGED store]_vars

\* A create_subscription has been refused as a duplicate.
C16_Witness ==
    /\ last.op = "create_subscription"
    /\ last.result = "Customer already has an active subscription"
    /\ \E s \in SubIds : subs[s].status = "active"

\* C17: a create_subscription whose charge fails leaves the subscriptions,
\* and the rest of the store, exactly as they were.
C17_FailedChargeCreatesNothing ==
    [][last'.op = "create_subscription" /\ last'.result = "Payment failed" =>
           UNCHANGED store]_vars

\* The charge of a create_subscription has failed, for a customer whose
\* earlier subscription is cancelled.
C17_Witness ==
    /\ last.op = "create_subscription" /\ last.result = "Payment failed"
    /\ subs # <<>>
    /\ \A s \in SubIds : subs[s].status = "cancelled"

\* C18: cancel_pre_order on a pending or confirmed pre-order whose
\* payment_status is charged cancels it and takes it off the counters of its
\* product and subscription whether the refund returns or fails; when the
\* refund returns, payment_status becomes refunded.
C18_CancelCommitsDespiteRefund ==
    [][/\ last'.op = "cancel_pre_order" /\ last'.po \in PreOrderIds
       /\ pre_orders[last'.po].status \in {"pending", "confirmed"}
       /\ pre_orders[last'.po].payment_status = "charged"
       => LET pre_order == pre_orders[last'.po]
              s == pre_order.subscription_id
              p == pre_order.product_id
          IN  /\ pre_orders'[last'.po].status = "cancelled"
              /\ products'[p].current_pre_orders
                    = products[p].current_pre_orders - pre_order.quantity
              /\ subs'[s].current_month_preorders
                    = subs[s].current_month_preorders - 1
              /\ last'.result = "ok" =>
                    pre_orders'[last'.po].payment_status = "refunded"]_vars

FailedLast(s) ==
    last.op = "renewal" /\ last.sub = s /\ last.result = "Payment failed"
RenewedLast(s) ==
    last.op = "renewal" /\ last.sub = s /\ last.result # "Payment failed"

\* C19: a renewal whose charge fails leaves the subscription as it was, it
\* is not visited again in the same sweep, and as long as it is active with
\* auto_renew it is due and selected by the next sweep; when the charges of
\* later sweeps succeed in the end, the subscription is renewed unless it
\* has stopped being active or auto-renewing.
C19_FailedRenewalIsRetried ==
    /\ [][/\ last'.op = "renewal" /\ last'.result = "Payment failed" =>
             LET s == last'.sub
             IN  /\ UNCHANGED store
                 /\ s \notin sweep'.due
                 /\ subs[s].status = "active" /\ subs[s].auto_renew
                       => subs'[s].next_billing_date <= now'
          /\ sweep.running /\ sweep'.running => sweep'.due \subseteq sweep.due
          /\ last'.op = "process_billing_cycle" =>
                sweep'.due = {s \in SubIds : /\ subs[s].status = "active"
                                             /\ subs[s].auto_renew
                                             /\ subs[s].next_billing_date <= now}]_vars
    /\ \A s \in 1..MaxSubs :
          FailedLast(s) ~> \/ RenewedLast(s)
                           \/ s \in SubIds /\ subs[s].status # "active"
                           \/ s \in SubIds /\ ~subs[s].auto_renew

\* The charge of a subscription with a pre-order counted has failed in a
\* sweep that goes on without it: the subscription is as due as it was.
C19_Witness ==
    /\ FailedLast(last.sub)
    /\ sweep.running /\ last.sub \in sweep.failed /\ last.sub \notin sweep.due
    /\ last.sub \in DueSubscriptions
    /\ subs[last.sub].current_month_preorders > 0

\* C12: two create_pre_order calls for the same product or the same
\* subscription that are both accepted, one straight after the other, leave
\* the product's current_pre_orders at most its pre_order_limit, the month's
\* pre-orders of the subscription at most its monthly_preorder_limit and
\* their summed total_amount at most its total_preorder_value_limit.
C12_TwoCreatesWithinLimits ==
    [][/\ CreatedLast
       /\ last'.op = "create_pre_order" /\ last'.result = "ok"
       /\ \/ last'.sub = last.sub
          \/ pre_orders'[last'.po].product_id = pre_orders[last.po].product_id
       => LET product == products'[pre_orders'[last'.po].product_id]
              subscription == subs'[last'.sub]
          IN  /\ product.pre_order_limit # Null =>
                    product.current_pre_orders <= product.pre_order_limit
              /\ subscription.monthly_preorder_limit > 0 =>
                    Cardinality(CurrentMonthOrders(pre_orders', last'.sub, now'))
                        <= subscription.monthly_preorder_limit
              /\ subscription.total_preorder_value_limit > 0 =>
                    CurrentMonthValue(pre_orders', last'.sub, now')
                        <= subscription.total_preorder_value_limit]_vars

\* C13: when a renewal of the subscription has run while a cancel_pre_order
\* on it was waiting for its refund, the counters the cancel commits are those
\* of the two run one after the other: the renewal's counters less the
\* cancelled pre-order (renewal first), or the renewal's counters (cancel
\* first, its decrement reset by the renewal).
C13_RenewalAndCancelSerialize ==
    [][ResumedCommit /\ RenewedSinceLoaded(last'.sub)
       => LET s == last'.sub
              pre_order == inflight.loaded.pre_orders[inflight.pre_order_id]
          IN  \/ /\ subs'[s].current_month_preorders =
                        subs[s].current_month_preorders - 1
                 /\ subs'[s].current_preorder_value =
                        FSub(subs[s].current_preorder_value, pre_order.total_amount)
              \/ /\ subs'[s].current_month_preorders =
                        subs[s].current_month_preorders
                 /\ subs'[s].current_preorder_value =
                        subs[s].current_preorder_value]_vars

\* C21: in every committed state a subscription whose status is cancelled has
\* no pre-order in status pending, also when a refund or a notification of
\* the cascade of cancel_subscription has failed.
C21_CancelledHasNoPending ==
    \A s \in SubIds :
        subs[s].status = "cancelled" =>
            \A i \in PreOrderIds :
                pre_orders[i].subscription_id = s => pre_orders[i].status # "pending"

\* C22: a sweep selects the subscriptions that are active, auto-renewing and
\* due when it starts; every charge it attempts is for one of them and
\* changes no other subscription, and when it ends it has attempted a charge
\* for each of them.
C22_SweepChargesExactlyDue ==
    [][/\ last'.op = "process_billing_cycle" =>
              sweep'.selected =
                  {s \in SubIds : /\ subs[s].status = "active"
                                  /\ subs[s].auto_renew
                                  /\ subs[s].next_billing_date <= now}
       /\ last'.op = "renewal" =>
              /\ last'.sub \in sweep.selected
              /\ sweep'.selected = sweep.selected
              /\ \A s \in SubIds \ {last'.sub} : subs'[s] = subs[s]
       /\ last'.op = "billing_cycle_task" =>
              /\ sweep.charged \cup sweep.failed = sweep.selected
              /\ UNCHANGED store]_vars

\* C23: create_pre_order on a subscription that does not exist or whose
\* status is not active is rejected with "Active subscription not found" and
\* changes nothing; an accepted create_pre_order is on an active
\* subscription, and every pre-order that enters the store does so under a
\* subscription that is active at that moment.
C23_PreOrderOnlyOnActive ==
    [][/\ last'.op = "create_pre_order" =>
              IF last'.sub \in SubIds /\ subs[last'.sub].status = "active"
              THEN last'.result # "Active subscription not found"
              ELSE /\ last'.result = "Active subscription not found"
                   /\ UNCHANGED store
       /\ \A i \in NewlyCreated :
              /\ last'.op = "create_pre_order" /\ last'.result = "ok"
              /\ pre_orders'[i].subscription_id = last'.sub
              /\ last'.sub \in SubIds
              /\ subs[last'.sub].status = "active"
              /\ subs'[last'.sub].status = "active"]_vars

\* create_pre_order has been refused on a paused subscription that holds a
\* pre-order from the time it was active.
C23_Witness ==
    /\ last.op = "create_pre_order"
    /\ last.result = "Active subscription not found"
    /\ last.sub \in SubIds
    /\ subs[last.sub].status = "paused"
    /\ \E i \in PreOrderIds : pre_orders[i].subscription_id = last.sub

\* C24: a create_pre_order on a subscription with monthly_preorder_limit = 0
\* is never refused by the count quota, and one on a subscription with
\* total_preorder_value_limit = 0 never by the value quota; the limit that is
\* not zero is still enforced: with a count limit N > 0 and at least N
\* pre-orders of the month the call is not accepted, whatever the value
\* limit, and after an accepted call on a subscription with a value limit
\* L > 0 the month's total is at most L, whatever the count limit.
C24_ZeroMeansUnlimited ==
    [][last'.op = "create_pre_order" /\ last'.sub \in SubIds =>
          LET s == last'.sub
          IN  /\ subs[s].monthly_preorder_limit = 0 => last'.result # CountError
              /\ subs[s].total_preorder_value_limit = 0 => last'.result # ValueError
              /\ /\ subs[s].monthly_preorder_limit > 0
                 /\ QuotaCount(s) >= subs[s].monthly_preorder_limit
                 => last'.result # "ok"
              /\ /\ subs[s].total_preorder_value_limit > 0
                 /\ last'.result = "ok"
                 => CurrentMonthValue(pre_orders', s, now)
                        <= subs[s].total_preorder_value_limit]_vars

\* A subscription without a count limit holds two pre-orders of the month
\* and has had a third refused by its value limit.
C24_Witness ==
    /\ last.op = "create_pre_order" /\ last.result = ValueError
    /\ subs[last.sub].monthly_preorder_limit = 0
    /\ subs[last.sub].total_preorder_value_limit > 0
    /\ QuotaCount(last.sub) >= 2

\* C25: a create_subscription that succeeds adds one subscription with
\* status active, start_date = now, next_billing_date = end_date =
\* start_date + 30, 90 or 365 days for a monthly, quarterly or annual plan,
\* the two limits of the plan and both counters zero, and changes nothing
\* else; on a plan with any other billing frequency the call is rejected,
\* whatever the charge would have answered, and changes nothing.
C25_NewSubscriptionFields ==
    [][last'.op = "create_subscription" =>
          /\ last'.result = "ok" =>
                LET s == last'.sub
                    plan == PlanTable[subs'[s].subscription_plan_id]
                    freq == plan.billing_frequency
                    days == IF freq = "monthly" THEN 30
                            ELSE IF freq = "quarterly" THEN 90 ELSE 365
                IN  /\ DOMAIN subs' = SubIds \cup {s} /\ s \notin SubIds
                    /\ \A t \in SubIds : subs'[t] = subs[t]
                    /\ UNCHANGED <<products, pre_orders>>
                    /\ freq \in {"monthly", "quarterly", "annually"}
                    /\ subs'[s].status = "active"
                    /\ subs'[s].start_date = now
                    /\ subs'[s].next_billing_date = now + days
                    /\ subs'[s].end_date = subs'[s].next_billing_date
                    /\ subs'[s].monthly_preorder_limit = plan.preorder_limit_per_month
                    /\ subs'[s].total_preorder_value_limit = plan.preorder_value_limit
                    /\ subs'[s].current_month_preorders = 0
                    /\ subs'[s].current_preorder_value = 0
          /\ \A c \in env.customers, p \in env.plans \cap PlanIds, a \in env.auto_renew,
                pay \in PaymentOutcomes :
                /\ PlanTable[p].billing_frequency
                       \notin {"monthly", "quarterly", "annually"}
                /\ create_subscription(c, p, a, pay)
                => /\ last'.result \notin {"ok", "Payment failed"}
                   /\ UNCHANGED store]_vars

\* A second subscription has been created on the quarterly plan after the
\* first day, with the plan's value limit.
C25_Witness ==
    /\ last.op = "create_subscription" /\ last.result = "ok"
    /\ last.sub > 1 /\ now > 0
    /\ PlanTable[subs[last.sub].subscription_plan_id].billing_frequency = "quarterly"
    /\ subs[last.sub].next_billing_date = now + QuarterlyDays
    /\ subs[last.sub].total_preorder_value_limit > 0

\* C26: no failure of a notification leaves the sweep: process_billing_cycle
\* returns to the billing task without an exception, after a turn of its
\* loop for every subscription it selected.
C26_SweepSurvivesNotifications ==
    [][last'.op = "billing_cycle_task" =>
          /\ last'.result = "ok"
          /\ ~sweep.aborted
          /\ sweep.due = {}]_vars

\* C27: when a charge of the sweep never returns, every other subscription
\* the sweep selected and has not visited yet is eventually attempted, charged
\* or failed, in that sweep.
C27_StuckChargeDoesNotBlock ==
    \A s \in 1..MaxSubs :
        (sweep.running /\ sweep.waiting # 0 /\ sweep.waiting # s /\ s \in sweep.due)
            ~> (s \in sweep.charged \cup sweep.failed)

\* C28: a create_pre_order that reaches the quota checks is refused by the
\* count quota exactly when the subscription's pre-orders of the current
\* calendar month that are not cancelled number at least its limit, and by
\* the value quota only when their summed total_amount plus an order's total
\* is above its limit, and accepted only when that sum is within the limit,
\* whatever current_month_preorders and current_preorder_value hold: after a
\* renewal has set them to zero an exhausted quota still refuses, and in a
\* new calendar month the quota is open again without a renewal.
C28_LedgerDecides ==
    [][/\ last'.op = "create_pre_order" /\ last'.sub \in SubIds
       /\ last'.result \in {"ok", CountError, ValueError}
       => LET s == last'.sub
              N == subs[s].monthly_preorder_limit
              L == subs[s].total_preorder_value_limit
              value == CurrentMonthValue(pre_orders, s, now)
          IN  /\ last'.result = CountError <=> N > 0 /\ QuotaCount(s) >= N
              /\ last'.result = ValueError =>
                    /\ L > 0
                    /\ \E p \in env.products \cap ProductIds, q \in env.quantities :
                          FAdd(value, OrderTotal(subs[s], products[p], q)) > L
              /\ last'.result = "ok" /\ L > 0 =>
                    FAdd(value, last'.order_total) <= L]_vars

\* A subscription whose counters a renewal has set to zero in the month of
\* its pre-orders has had a further pre-order refused by the count quota.
C28_Witness ==
    /\ last.op = "create_pre_order" /\ last.result = CountError
    /\ subs[last.sub].current_month_preorders = 0
    /\ subs[last.sub].next_billing_date
         > subs[last.sub].start_date + MonthlyDays
    /\ QuotaCount(last.sub) = subs[last.sub].monthly_preorder_limit

\* C29: in every reachable state no customer has two subscriptions with
\* status active.
C29_OneActivePerCustomer ==
    \A s \in SubIds, t \in SubIds :
        /\ s # t
        /\ subs[s].customer_id = subs[t].customer_id
        /\ subs[s].status = "active"
        => subs[t].status # "active"

\* C30: in every reachable state a subscription with monthly_preorder_limit
\* N > 0 has at most N pre-orders of the current calendar month that are not
\* cancelled, and one with total_preorder_value_limit L > 0 has a summed
\* total_amount of them of at most L.
C30_LedgerWithinLimits ==
    \A s \in SubIds :
        /\ subs[s].monthly_preorder_limit > 0 =>
              QuotaCount(s) <= subs[s].monthly_preorder_limit
        /\ subs[s].total_preorder_value_limit > 0 =>
              CurrentMonthValue(pre_orders, s, now)
                  <= subs[s].total_preorder_value_limit

\* A subscription at its count limit, one of its earlier pre-orders cancelled
\* and replaced, has had a further pre-order refused.
C30_Witness ==
    /\ last.op = "create_pre_order" /\ last.result = CountError
    /\ QuotaCount(last.sub) = subs[last.sub].monthly_preorder_limit
    /\ \E i \in PreOrderIds, j \in PreOrderIds :
          /\ i < j
          /\ pre_orders[i].subscription_id = last.sub
          /\ pre_orders[j].subscription_id = last.sub
          /\ pre_orders[i].status = "cancelled"
          /\ pre_orders[j].status # "cancelled"
          /\ pre_orders[j].created_at >= MonthStart(now)

\* The pre-orders that are not cancelled.
OpenPreOrders == {i \in PreOrderIds : pre_orders[i].status # "cancelled"}

\* C31: in every committed state the current_pre_orders of each product is
\* the sum of the quantity of its pre-orders that are not cancelled, and is
\* not negative.
C31_ProductCounterIsLedger ==
    \A p \in ProductIds :
        /\ products[p].current_pre_orders
              = Units(pre_orders, OpenPreOrders, p, Len(pre_orders))
        /\ products[p].current_pre_orders >= 0

\* C32: the billing sweep charges or renews a subscription only while its
\* status is active: no turn of the loop acts on a subscription that a
\* pause_subscription or cancel_subscription has taken out of the active
\* status since the sweep selected it.  The turns are those after the first
\* of a sweep: the first charge follows the selection without an await, the
\* later ones follow the awaits of the turns before them.
C32_SweepChargesOnlyActive ==
    [][/\ last'.op = "renewal"
       /\ sweep.charged \cup sweep.failed # {}
       => subs[last'.sub].status = "active"]_vars

\* The end of the period of a subscription is its next billing date.
PeriodEndsAtBilling(subscription) ==
    subscription.end_date = subscription.next_billing_date

\* C33: after every step, a subscription whose status is active or paused
\* has end_date = next_billing_date, and a step that makes the two differ,
\* on a subscription where they were equal, is an immediate
\* cancel_subscription of it, which sets end_date to the day of the call.
C33_EndDateIsBillingDate ==
    [][\A s \in DOMAIN subs' :
          /\ subs'[s].status \in {"active", "paused"} => PeriodEndsAtBilling(subs'[s])
          /\ /\ ~PeriodEndsAtBilling(subs'[s])
             /\ s \in SubIds => PeriodEndsAtBilling(subs[s])
             => /\ s \in SubIds
                /\ last'.op = "cancel_subscription" /\ last'.sub = s
                /\ subs'[s].status = "cancelled"
                /\ subs'[s].end_date = now]_vars

\* A renewal has moved the dates of a subscription on while another one,
\* cancelled immediately, has an end_date that is not its billing date.
C33_Witness ==
    /\ last.op = "renewal" /\ last.result = "ok"
    /\ subs[last.sub].status \in {"active", "paused"}
    /\ subs[last.sub].next_billing_date > now
    /\ PeriodEndsAtBilling(subs[last.sub])
    /\ \E t \in SubIds :
          /\ subs[t].status = "cancelled"
          /\ ~PeriodEndsAtBilling(subs[t])

\* The steps of a subscription's billing date: none, or one period of its
\* plan.
AtMostOnePeriod(s) ==
    LET plan == PlanTable[subs[s].subscription_plan_id]
    IN  subs'[s].next_billing_date \in
            {subs[s].next_billing_date,
             subs[s].next_billing_date + Period(plan.billing_frequency)}

\* C34: a billing sweep whose calls return ends, and when it ends without
\* an exception it has attempted each subscription it selected exactly once:
\* every turn of the loop is for a subscription selected and not attempted
\* yet in this sweep, records it as charged or as failed, and moves its
\* next_billing_date by one period at most; no other step moves a billing
\* date or changes what the sweep selected and attempted, so a subscription
\* that is still due after its renewal waits for the next sweep.
C34_SweepAttemptsEachOnce ==
    /\ [][/\ last'.op = "renewal" =>
              LET s == last'.sub
              IN  /\ s \in sweep.due /\ s \in sweep.selected
                  /\ s \notin sweep.charged \cup sweep.failed
                  /\ s \notin sweep'.due
                  /\ sweep'.due \subseteq sweep.due
                  /\ sweep'.selected = sweep.selected
                  /\ sweep'.charged \cup sweep'.failed =
                         sweep.charged \cup sweep.failed \cup {s}
                  /\ sweep'.charged \cap sweep'.failed = {}
                  /\ AtMostOnePeriod(s)
                  /\ \A t \in SubIds \ {s} :
                         subs'[t].next_billing_date = subs[t].next_billing_date
          /\ last'.op # "renewal" =>
                /\ \A s \in SubIds :
                       subs'[s].next_billing_date = subs[s].next_billing_date
                /\ sweep.running /\ sweep'.running => sweep' = sweep
          /\ last'.op = "billing_cycle_task" /\ last'.result = "ok" =>
                /\ sweep.charged \cup sweep.failed = sweep.selected
                /\ sweep.due = {}]_vars
    /\ sweep.running ~> ~sweep.running

\* A renewal has moved the billing date of a subscription that was overdue
\* by more than one period: the subscription is still due, and the sweep
\* goes on without it.
C34_Witness ==
    /\ last.op = "renewal" /\ last.result = "ok"
    /\ sweep.running
    /\ last.sub \in sweep.charged /\ last.sub \notin sweep.due
    /\ last.sub \in DueSubscriptions
    /\ sweep.due # {}

====
